---- MODULE Spec2Model ----
(***************************************************************************)
(* Model of src/src/calculation.py: the FinancialStatementAuditor (eleven  *)
(* checks over a balance sheet, an income statement and a cash-flow        *)
(* statement, accumulating findings in three instance lists, and           *)
(* run_all_audits which runs them all and compiles a report) and the       *)
(* Benford leading-digit analyzer.                                         *)
(*                                                                         *)
(* Python dicts are functions from the keys that are present to values;    *)
(* d[k] on an absent key raises KeyError, d.get(k, v) yields v.  Monetary   *)
(* values are integers (currency units).  A finding is a record holding    *)
(* the keys of the dict the code appends; the 'message' texts, which only  *)
(* render the same values, are left out.                                   *)
(***************************************************************************)
EXTENDS Integers, Sequences, FiniteSets, TLC

VARIABLES
    bs,             \* self.bs: [assets, liabilities, equity], each a dict
    is_,            \* self.is_: the income statement dict
    cf,             \* self.cf: the cash-flow dict
    errors,         \* self.errors
    warnings,       \* self.warnings
    passed_checks,  \* self.passed_checks
    audit_results,  \* self.audit_results (the lists of a report alias the three above)
    last,           \* the last call: [op, raised, ret]
    calls,          \* names of the auditor methods called so far, in order
    transactions,   \* argument of the last Benford.analyze call
    benford,        \* outcome of the last Benford.analyze call
    interpretation  \* result of the last Benford.interpret_mad call

vars == <<bs, is_, cf, errors, warnings, passed_checks, audit_results, last, calls,
          transactions, benford, interpretation>>

auditorVars == <<bs, is_, cf, errors, warnings, passed_checks, audit_results, last, calls>>
benfordVars == <<transactions, benford, interpretation>>

\* ---------------------------------------------------------------- bounds
MaxCalls == 2
MaxTx == 2

\* ---------------------------------------------------------------- Python helpers
\* d.get(k, default)
Get(d, k, default) ==
    IF k \in DOMAIN d THEN d[k] ELSE default

\* bs[outer][k] evaluates without KeyError
HasPath(b, outer, k) ==
    outer \in DOMAIN b /\ k \in DOMAIN b[outer]

\* abs()
Abs(x) ==
    IF x < 0 THEN -x ELSE x

\* The instance as one value: what a method reads and what it may change.
Self ==
    [bs |-> bs, is_ |-> is_, cf |-> cf, errors |-> errors, warnings |-> warnings,
     passed_checks |-> passed_checks, audit_results |-> audit_results]

\* Outcomes of a method call: the instance after it, and a return value or an exception.
Return(self, value) ==
    [self |-> self, raised |-> FALSE, ret |-> value]

Raise(self, exception) ==
    [self |-> self, raised |-> TRUE, ret |-> exception]

AppendError(self, finding) ==
    [self EXCEPT !.errors = Append(@, finding)]

AppendWarning(self, finding) ==
    [self EXCEPT !.warnings = Append(@, finding)]

AppendPassed(self, finding) ==
    [self EXCEPT !.passed_checks = Append(@, finding)]

\* ---------------------------------------------------------------- balance sheet checks
\* The three totals, as every check that needs them computes them.
TotalAssets(b) ==
    b.assets.current_assets + b.assets.non_current_assets

TotalLiabilities(b) ==
    b.liabilities.current_liabilities + b.liabilities.non_current_liabilities

TotalEquityCommonStockOnly(b) ==
    b.equity.common_stock

TotalEquity(b) ==
    b.equity.common_stock + b.equity.retained_earnings

EquationHoldsWithinOne(difference) ==
    Abs(difference) <= 1

\* The zero-tolerance comparison of the equation check
EquationHolds(difference) ==
    Abs(difference) = 0

validate_balance_sheet_equation(self) ==
    IF ~(/\ HasPath(self.bs, "assets", "current_assets")
         /\ HasPath(self.bs, "assets", "non_current_assets")
         /\ HasPath(self.bs, "liabilities", "current_liabilities")
         /\ HasPath(self.bs, "liabilities", "non_current_liabilities")
         /\ HasPath(self.bs, "equity", "common_stock")
         /\ HasPath(self.bs, "equity", "retained_earnings"))
    THEN Raise(self, "KeyError")
    ELSE
    LET total_assets == TotalAssets(self.bs)
        total_liabilities == TotalLiabilities(self.bs)
        total_equity == TotalEquity(self.bs)
        difference == total_assets - (total_liabilities + total_equity)
        check_name == "Balance Sheet Equation (A = L + E)"
    IN  IF EquationHolds(difference)
        THEN Return(AppendPassed(self,
                 [check |-> check_name, status |-> "PASS", assets |-> total_assets,
                  liabilities_plus_equity |-> total_liabilities + total_equity,
                  difference |-> difference]), TRUE)
        ELSE Return(AppendError(self,
                 [check |-> check_name, status |-> "FAIL", severity |-> "CRITICAL",
                  assets |-> total_assets,
                  liabilities_plus_equity |-> total_liabilities + total_equity,
                  difference |-> difference]), FALSE)

LastNegative(items) ==
    IF \E n \in 1..Len(items) : items[n].value < 0
    THEN CHOOSE n \in 1..Len(items) :
             /\ items[n].value < 0
             /\ \A m \in (n + 1)..Len(items) : ~(items[m].value < 0)
    ELSE 0

\* The loop over (Cash, Accounts Receivable, Inventory): the first negative value
\* appends one error and returns.
FirstNegative(items) ==
    IF \E n \in 1..Len(items) : items[n].value < 0
    THEN CHOOSE n \in 1..Len(items) :
             /\ items[n].value < 0
             /\ \A m \in 1..(n - 1) : ~(items[m].value < 0)
    ELSE 0

validate_current_assets_composition(self) ==
    IF "assets" \notin DOMAIN self.bs
    THEN Raise(self, "KeyError")
    ELSE
    LET check_name == "Current Assets Composition"
        cash == Get(self.bs.assets, "cash", 0)
        ar == Get(self.bs.assets, "accounts_receivable", 0)
        inventory == Get(self.bs.assets, "inventory", 0)
        items == << [name |-> "Cash", value |-> cash],
                    [name |-> "Accounts Receivable", value |-> ar],
                    [name |-> "Inventory", value |-> inventory] >>
        n == FirstNegative(items)
    IN  IF n # 0
        THEN Return(AppendError(self,
                 [check |-> check_name, status |-> "FAIL", severity |-> "HIGH",
                  item |-> items[n].name, value |-> items[n].value]), FALSE)
        ELSE Return(AppendPassed(self, [check |-> check_name, status |-> "PASS"]), TRUE)

validate_liability_equity_structure_warning_first(self) ==
    IF ~(/\ HasPath(self.bs, "liabilities", "current_liabilities")
         /\ HasPath(self.bs, "liabilities", "non_current_liabilities")
         /\ HasPath(self.bs, "equity", "common_stock")
         /\ HasPath(self.bs, "equity", "retained_earnings"))
    THEN Raise(self, "KeyError")
    ELSE
    LET check_name == "Liability and Equity Structure"
        total_liabilities == TotalLiabilities(self.bs)
        total_equity == TotalEquity(self.bs)
        common_stock == self.bs.equity.common_stock
        s1 == IF total_equity < 0
              THEN AppendWarning(self,
                       [check |-> check_name, status |-> "WARNING",
                        item |-> "Total Equity", value |-> total_equity])
              ELSE self
    IN  IF total_liabilities < 0
        THEN Return(AppendError(s1,
                 [check |-> check_name, status |-> "FAIL", severity |-> "CRITICAL",
                  item |-> "Total Liabilities", value |-> total_liabilities]), FALSE)
        ELSE IF common_stock < 0
        THEN Return(AppendError(s1,
                 [check |-> check_name, status |-> "FAIL", severity |-> "CRITICAL",
                  item |-> "Common Stock", value |-> common_stock]), FALSE)
        ELSE Return(AppendPassed(s1, [check |-> check_name, status |-> "PASS"]), TRUE)

validate_liability_equity_structure(self) ==
    IF ~(/\ HasPath(self.bs, "liabilities", "current_liabilities")
         /\ HasPath(self.bs, "liabilities", "non_current_liabilities")
         /\ HasPath(self.bs, "equity", "common_stock")
         /\ HasPath(self.bs, "equity", "retained_earnings"))
    THEN Raise(self, "KeyError")
    ELSE
    LET check_name == "Liability and Equity Structure"
        total_liabilities == TotalLiabilities(self.bs)
        total_equity == TotalEquity(self.bs)
        common_stock == self.bs.equity.common_stock
        s1 == IF total_equity < 0
              THEN AppendWarning(self,
                       [check |-> check_name, status |-> "WARNING",
                        item |-> "Total Equity", value |-> total_equity])
              ELSE self
    IN  IF total_liabilities < 0
        THEN Return(AppendError(self,
                 [check |-> check_name, status |-> "FAIL", severity |-> "CRITICAL",
                  item |-> "Total Liabilities", value |-> total_liabilities]), FALSE)
        ELSE IF common_stock < 0
        THEN Return(AppendError(s1,
                 [check |-> check_name, status |-> "FAIL", severity |-> "CRITICAL",
                  item |-> "Common Stock", value |-> common_stock]), FALSE)
        ELSE Return(AppendPassed(s1, [check |-> check_name, status |-> "PASS"]), TRUE)

\* ---------------------------------------------------------------- income statement checks
AppendOperatingIncomeMismatchAsWarning(self, finding) ==
    AppendWarning(self, finding)

\* The list the operating-income mismatch goes to: self.errors.append(...)
AppendOperatingIncomeMismatch(self, finding) ==
    AppendError(self, finding)

validate_income_statement_flow_recomputed_upstream(self) ==
    LET inc == self.is_
        revenue == Get(inc, "revenue", 0)
        cogs == Get(inc, "cost_of_goods_sold", 0)
        gross_profit_actual == Get(inc, "gross_profit", 0)
        gross_profit_calculated == revenue - cogs
        ok1 == Abs(gross_profit_actual - gross_profit_calculated) = 0
        s1 == IF ok1
              THEN AppendPassed(self,
                       [check |-> "Gross Profit Calculation (Revenue - COGS)",
                        status |-> "PASS", actual |-> gross_profit_actual,
                        calculated |-> gross_profit_calculated,
                        difference |-> Abs(gross_profit_actual - gross_profit_calculated)])
              ELSE AppendError(self,
                       [check |-> "Gross Profit Calculation", status |-> "FAIL",
                        severity |-> "CRITICAL", revenue |-> revenue, cogs |-> cogs,
                        actual_gross_profit |-> gross_profit_actual,
                        calculated_gross_profit |-> gross_profit_calculated,
                        difference |-> Abs(gross_profit_actual - gross_profit_calculated)])
        opex == Get(inc, "operating_expenses", 0)
        operating_income_actual == Get(inc, "operating_income", 0)
        operating_income_calculated == gross_profit_calculated - opex
        ok2 == Abs(operating_income_actual - operating_income_calculated) = 0
        s2 == IF ok2
              THEN AppendPassed(s1,
                       [check |-> "Operating Income Calculation (GP - OpEx)",
                        status |-> "PASS", actual |-> operating_income_actual,
                        calculated |-> operating_income_calculated])
              ELSE AppendOperatingIncomeMismatch(s1,
                       [check |-> "Operating Income Calculation", status |-> "WARNING",
                        severity |-> "HIGH", gross_profit |-> gross_profit_actual,
                        opex |-> opex, actual_oi |-> operating_income_actual,
                        calculated_oi |-> operating_income_calculated])
        interest_exp == Get(inc, "interest_expense", 0)
        taxes == Get(inc, "income_tax_expense", 0)
        net_income_actual == Get(inc, "net_income", 0)
        net_income_calculated == operating_income_calculated - interest_exp - taxes
        ok3 == Abs(net_income_actual - net_income_calculated) = 0
        s3 == IF ok3
              THEN AppendPassed(s2,
                       [check |-> "Net Income Calculation (OI - Interest - Taxes)",
                        status |-> "PASS", actual |-> net_income_actual,
                        calculated |-> net_income_calculated])
              ELSE AppendError(s2,
                       [check |-> "Net Income Calculation", status |-> "FAIL",
                        severity |-> "CRITICAL", oi |-> operating_income_actual,
                        interest |-> interest_exp, taxes |-> taxes,
                        actual_ni |-> net_income_actual,
                        calculated_ni |-> net_income_calculated])
    IN  Return(s3, ok1 /\ ok2 /\ ok3)

validate_income_statement_flow(self) ==
    LET inc == self.is_
        \* Check 1: Revenue - COGS = Gross Profit
        revenue == Get(inc, "revenue", 0)
        cogs == Get(inc, "cost_of_goods_sold", 0)
        gross_profit_actual == Get(inc, "gross_profit", 0)
        gross_profit_calculated == revenue - cogs
        ok1 == Abs(gross_profit_actual - gross_profit_calculated) = 0
        s1 == IF ok1
              THEN AppendPassed(self,
                       [check |-> "Gross Profit Calculation (Revenue - COGS)",
                        status |-> "PASS", actual |-> gross_profit_actual,
                        calculated |-> gross_profit_calculated,
                        difference |-> Abs(gross_profit_actual - gross_profit_calculated)])
              ELSE AppendError(self,
                       [check |-> "Gross Profit Calculation", status |-> "FAIL",
                        severity |-> "CRITICAL", revenue |-> revenue, cogs |-> cogs,
                        actual_gross_profit |-> gross_profit_actual,
                        calculated_gross_profit |-> gross_profit_calculated,
                        difference |-> Abs(gross_profit_actual - gross_profit_calculated)])
        \* Check 2: Gross Profit - OpEx = Operating Income
        opex == Get(inc, "operating_expenses", 0)
        operating_income_actual == Get(inc, "operating_income", 0)
        operating_income_calculated == gross_profit_actual - opex
        ok2 == Abs(operating_income_actual - operating_income_calculated) = 0
        s2 == IF ok2
              THEN AppendPassed(s1,
                       [check |-> "Operating Income Calculation (GP - OpEx)",
                        status |-> "PASS", actual |-> operating_income_actual,
                        calculated |-> operating_income_calculated])
              ELSE AppendOperatingIncomeMismatch(s1,
                       [check |-> "Operating Income Calculation", status |-> "WARNING",
                        severity |-> "HIGH", gross_profit |-> gross_profit_actual,
                        opex |-> opex, actual_oi |-> operating_income_actual,
                        calculated_oi |-> operating_income_calculated])
        \* Check 3: Operating Income - Interest - Taxes = Net Income
        interest_exp == Get(inc, "interest_expense", 0)
        taxes == Get(inc, "income_tax_expense", 0)
        net_income_actual == Get(inc, "net_income", 0)
        net_income_calculated == operating_income_actual - interest_exp - taxes
        ok3 == Abs(net_income_actual - net_income_calculated) = 0
        s3 == IF ok3
              THEN AppendPassed(s2,
                       [check |-> "Net Income Calculation (OI - Interest - Taxes)",
                        status |-> "PASS", actual |-> net_income_actual,
                        calculated |-> net_income_calculated])
              ELSE AppendError(s2,
                       [check |-> "Net Income Calculation", status |-> "FAIL",
                        severity |-> "CRITICAL", oi |-> operating_income_actual,
                        interest |-> interest_exp, taxes |-> taxes,
                        actual_ni |-> net_income_actual,
                        calculated_ni |-> net_income_calculated])
    IN  Return(s3, ok1 /\ ok2 /\ ok3)

validate_income_statement_logic_no_short_circuit(self) ==
    LET inc == self.is_
        check_name == "Income Statement Logic"
        revenue == Get(inc, "revenue", 0)
        cogs == Get(inc, "cost_of_goods_sold", 0)
        opex == Get(inc, "operating_expenses", 0)
        interest == Get(inc, "interest_expense", 0)
        taxes == Get(inc, "income_tax_expense", 0)
        s5 == IF cogs > revenue /\ cogs # 0
              THEN AppendWarning(self,
                       [check |-> check_name, status |-> "WARNING",
                        item |-> "COGS > Revenue", cogs |-> cogs, revenue |-> revenue])
              ELSE self
        s8 == IF taxes < 0
              THEN AppendWarning(s5,
                       [check |-> check_name, status |-> "WARNING",
                        item |-> "Tax Provision", value |-> taxes])
              ELSE s5
    IN  IF revenue < 0
        THEN Return(AppendError(self,
                 [check |-> check_name, status |-> "FAIL", severity |-> "CRITICAL",
                  item |-> "Revenue", value |-> revenue]), FALSE)
        ELSE IF opex < 0
        THEN Return(AppendError(s8,
                 [check |-> check_name, status |-> "FAIL", severity |-> "HIGH",
                  item |-> "Operating Expenses", value |-> opex]), FALSE)
        ELSE IF interest < 0
        THEN Return(AppendError(s8,
                 [check |-> check_name, status |-> "FAIL", severity |-> "HIGH",
                  item |-> "Interest Expense", value |-> interest]), FALSE)
        ELSE Return(AppendPassed(s8, [check |-> check_name, status |-> "PASS"]), TRUE)

validate_income_statement_logic(self) ==
    LET inc == self.is_
        check_name == "Income Statement Logic"
        revenue == Get(inc, "revenue", 0)
        cogs == Get(inc, "cost_of_goods_sold", 0)
        opex == Get(inc, "operating_expenses", 0)
        interest == Get(inc, "interest_expense", 0)
        taxes == Get(inc, "income_tax_expense", 0)
        \* Check 5: COGS should not exceed revenue
        s5 == IF cogs > revenue /\ cogs # 0
              THEN AppendWarning(self,
                       [check |-> check_name, status |-> "WARNING",
                        item |-> "COGS > Revenue", cogs |-> cogs, revenue |-> revenue])
              ELSE self
        \* Check 8: Taxes should be non-negative
        s8 == IF taxes < 0
              THEN AppendWarning(s5,
                       [check |-> check_name, status |-> "WARNING",
                        item |-> "Tax Provision", value |-> taxes])
              ELSE s5
    IN  IF revenue < 0
        THEN Return(AppendError(self,
                 [check |-> check_name, status |-> "FAIL", severity |-> "CRITICAL",
                  item |-> "Revenue", value |-> revenue]), FALSE)
        ELSE IF opex < 0
        THEN Return(AppendError(s5,
                 [check |-> check_name, status |-> "FAIL", severity |-> "HIGH",
                  item |-> "Operating Expenses", value |-> opex]), FALSE)
        ELSE IF interest < 0
        THEN Return(AppendError(s5,
                 [check |-> check_name, status |-> "FAIL", severity |-> "HIGH",
                  item |-> "Interest Expense", value |-> interest]), FALSE)
        ELSE Return(AppendPassed(s8, [check |-> check_name, status |-> "PASS"]), TRUE)

\* ---------------------------------------------------------------- cash-flow checks
validate_cash_flow_components(self) ==
    LET check_name == "Cash Flow Reconciliation"
        ocf == Get(self.cf, "operating_activities", 0)
        icf == Get(self.cf, "investing_activities", 0)
        fcf == Get(self.cf, "financing_activities", 0)
        calculated_change == ocf + icf + fcf
    IN  Return(AppendPassed(self,
            [check |-> check_name, status |-> "PASS", ocf |-> ocf, icf |-> icf,
             fcf |-> fcf, net_change |-> calculated_change]), TRUE)

validate_investing_cash_flow_components_depreciation_warns(self) ==
    LET check_name == "Investing CF Components"
        capex == Get(self.cf, "capital_expenditure", 0)
        depreciation == Get(self.cf, "depreciation", 0)
        s2 == IF capex > 0 /\ capex # 0
              THEN AppendWarning(self,
                       [check |-> check_name, status |-> "WARNING",
                        item |-> "Capital Expenditure", value |-> capex])
              ELSE self
        s3 == IF depreciation < 0
              THEN AppendWarning(s2,
                       [check |-> check_name, status |-> "WARNING",
                        item |-> "Depreciation", value |-> depreciation])
              ELSE s2
    IN  Return(AppendPassed(s3, [check |-> check_name, status |-> "PASS"]), TRUE)

validate_investing_cash_flow_components(self) ==
    LET check_name == "Investing CF Components"
        capex == Get(self.cf, "capital_expenditure", 0)
        depreciation == Get(self.cf, "depreciation", 0)
        s2 == IF capex > 0 /\ capex # 0
              THEN AppendWarning(self,
                       [check |-> check_name, status |-> "WARNING",
                        item |-> "Capital Expenditure", value |-> capex])
              ELSE self
    IN  IF depreciation < 0
        THEN Return(AppendError(s2,
                 [check |-> check_name, status |-> "FAIL", severity |-> "MEDIUM",
                  item |-> "Depreciation", value |-> depreciation]), FALSE)
        ELSE Return(AppendPassed(s2, [check |-> check_name, status |-> "PASS"]), TRUE)

validate_financing_cash_flow_components_warning_on_zero(self) ==
    LET check_name == "Financing CF Components"
        debt_issued == Get(self.cf, "debt_issuance", 0)
        debt_repaid == Get(self.cf, "debt_repayment", 0)
        dividends == Get(self.cf, "dividends_paid", 0)
        s4 == IF debt_issued <= 0
              THEN AppendWarning(self,
                       [check |-> check_name, status |-> "WARNING",
                        item |-> "Debt Issuance", value |-> debt_issued])
              ELSE self
        s5 == IF debt_repaid >= 0
              THEN AppendWarning(s4,
                       [check |-> check_name, status |-> "WARNING",
                        item |-> "Debt Repayment", value |-> debt_repaid])
              ELSE s4
        s6 == IF dividends >= 0
              THEN AppendWarning(s5,
                       [check |-> check_name, status |-> "WARNING",
                        item |-> "Dividends Paid", value |-> dividends])
              ELSE s5
    IN  Return(AppendPassed(s6, [check |-> check_name, status |-> "PASS"]), TRUE)

validate_financing_cash_flow_components(self) ==
    LET check_name == "Financing CF Components"
        debt_issued == Get(self.cf, "debt_issuance", 0)
        debt_repaid == Get(self.cf, "debt_repayment", 0)
        dividends == Get(self.cf, "dividends_paid", 0)
        s4 == IF debt_issued < 0 /\ debt_issued # 0
              THEN AppendWarning(self,
                       [check |-> check_name, status |-> "WARNING",
                        item |-> "Debt Issuance", value |-> debt_issued])
              ELSE self
        s5 == IF debt_repaid > 0 /\ debt_repaid # 0
              THEN AppendWarning(s4,
                       [check |-> check_name, status |-> "WARNING",
                        item |-> "Debt Repayment", value |-> debt_repaid])
              ELSE s4
        s6 == IF dividends > 0 /\ dividends # 0
              THEN AppendWarning(s5,
                       [check |-> check_name, status |-> "WARNING",
                        item |-> "Dividends Paid", value |-> dividends])
              ELSE s5
    IN  Return(AppendPassed(s6, [check |-> check_name, status |-> "PASS"]), TRUE)

\* ---------------------------------------------------------------- cross-statement checks
WithinRangeExclusive(net_income, ocf) ==
    net_income < 2 * ocf /\ ocf < 2 * net_income

\* lower_bound <= ocf <= upper_bound with lower_bound = net_income * 0.5 and
\* upper_bound = net_income * 2.0, both exact on integers.
WithinRange(net_income, ocf) ==
    net_income <= 2 * ocf /\ ocf <= 2 * net_income

validate_net_income_to_cash_flow(self) ==
    LET check_name == "Net Income to Operating CF"
        net_income == Get(self.is_, "net_income", 0)
        ocf == Get(self.cf, "operating_activities", 0)
    IN  IF net_income > 0
        THEN IF WithinRange(net_income, ocf)
             THEN Return(AppendPassed(self,
                      [check |-> check_name, status |-> "PASS", net_income |-> net_income,
                       operating_cf |-> ocf, within_range |-> TRUE]), TRUE)
             ELSE Return(AppendWarning(self,
                      [check |-> check_name, status |-> "WARNING",
                       net_income |-> net_income, operating_cf |-> ocf]), TRUE)
        ELSE Return(AppendPassed(self,
                 [check |-> check_name, status |-> "PASS",
                  note |-> "Unable to validate when Net Income <= 0"]), TRUE)

validate_balance_sheet_consistency(self) ==
    IF ~(/\ HasPath(self.bs, "liabilities", "current_liabilities")
         /\ HasPath(self.bs, "liabilities", "non_current_liabilities")
         /\ HasPath(self.bs, "equity", "common_stock")
         /\ HasPath(self.bs, "equity", "retained_earnings"))
    THEN Raise(self, "KeyError")
    ELSE
    LET check_name == "Balance Sheet Item Consistency"
        total_liabilities == TotalLiabilities(self.bs)
        total_equity == TotalEquity(self.bs)
        short_term_debt == Get(self.bs.liabilities, "short_term_debt", 0)
        common_stock == Get(self.bs.equity, "common_stock", 0)
    IN  IF short_term_debt > total_liabilities /\ short_term_debt > 0
        THEN Return(AppendError(self,
                 [check |-> check_name, status |-> "FAIL", severity |-> "HIGH",
                  short_term_debt |-> short_term_debt,
                  total_liabilities |-> total_liabilities]), FALSE)
        ELSE IF common_stock > total_equity /\ common_stock > 0
        THEN Return(AppendError(self,
                 [check |-> check_name, status |-> "WARNING", severity |-> "HIGH",
                  common_stock |-> common_stock, total_equity |-> total_equity]), FALSE)
        ELSE Return(AppendPassed(self, [check |-> check_name, status |-> "PASS"]), TRUE)

\* ---------------------------------------------------------------- ratio checks
PctInRangeExclusive(num, den, lo, hi) ==
    IF den > 0
    THEN lo * den < 100 * num /\ 100 * num < hi * den
    ELSE lo * den > 100 * num /\ 100 * num > hi * den

\* lo <= (num / den) * 100 <= hi for den # 0, compared exactly.
PctInRange(num, den, lo, hi) ==
    IF den > 0
    THEN lo * den <= 100 * num /\ 100 * num <= hi * den
    ELSE lo * den >= 100 * num /\ 100 * num >= hi * den

\* The ratio (num / den) * 100 as f'{ratio:.2f}%' renders it: in hundredths of a
\* percent, rounded to the nearest.
PctHundredths(num, den) ==
    LET n == IF den > 0 THEN 10000 * num ELSE -(10000 * num)
        d == Abs(den)
    IN  IF n >= 0 THEN (2 * n + d) \div (2 * d) ELSE -((2 * (-n) + d) \div (2 * d))

\* The next statement of a method body runs only when the previous one did not raise.
Then(out, F(_)) ==
    IF out.raised THEN out ELSE F(out.self)

RatioCheckUnguarded(self, name, num, den, lo, hi) ==
    IF den = 0
    THEN Raise(self, "ZeroDivisionError")
    ELSE IF PctInRange(num, den, lo, hi)
    THEN Return(AppendPassed(self,
             [check |-> name, status |-> "PASS", value |-> PctHundredths(num, den)]), "None")
    ELSE Return(AppendWarning(self,
             [check |-> name, status |-> "WARNING", value |-> PctHundredths(num, den)]), "None")

\* One margin or ratio check, guarded by "if den != 0": nothing when the denominator
\* is 0, else one PASS or one WARNING.
RatioCheck(self, name, num, den, lo, hi) ==
    IF den # 0
    THEN IF PctInRange(num, den, lo, hi)
         THEN Return(AppendPassed(self,
                  [check |-> name, status |-> "PASS",
                   value |-> PctHundredths(num, den)]), "None")
         ELSE Return(AppendWarning(self,
                  [check |-> name, status |-> "WARNING",
                   value |-> PctHundredths(num, den)]), "None")
    ELSE Return(self, "None")

RatioRevenueZeroAsOne(inc) ==
    IF Get(inc, "revenue", 0) = 0 THEN 1 ELSE inc.revenue

\* inc.get('revenue', 1)
RatioRevenue(inc) ==
    Get(inc, "revenue", 1)

validate_ratios_reasonableness(self) ==
    LET inc == self.is_
        revenue == RatioRevenue(inc)
        gross_profit == Get(inc, "gross_profit", 0)
        operating_income == Get(inc, "operating_income", 0)
        net_income == Get(inc, "net_income", 0)
    IN  IF ~(/\ HasPath(self.bs, "assets", "current_assets")
             /\ HasPath(self.bs, "assets", "non_current_assets")
             /\ HasPath(self.bs, "liabilities", "current_liabilities")
             /\ HasPath(self.bs, "liabilities", "non_current_liabilities"))
        THEN Raise(self, "KeyError")
        ELSE
        LET total_assets == TotalAssets(self.bs)
            total_liabilities == TotalLiabilities(self.bs)
            c1 == RatioCheck(self, "Financial Ratios Reasonableness - Gross Margin",
                             gross_profit, revenue, -1, 101)
            c2 == Then(c1, LAMBDA s : RatioCheck(s,
                             "Financial Ratios Reasonableness - Operating Margin",
                             operating_income, revenue, -101, 101))
            c3 == Then(c2, LAMBDA s : RatioCheck(s,
                             "Financial Ratios Reasonableness - Net Margin",
                             net_income, revenue, -101, 101))
            c4 == Then(c3, LAMBDA s : RatioCheck(s,
                             "Financial Ratios Reasonableness - Debt to Assets",
                             total_liabilities, total_assets, 0, 200))
        IN  Then(c4, LAMBDA s : Return(s, TRUE))

\* ---------------------------------------------------------------- audit execution
\* The report dict: its three lists are the instance's own list objects.
Report(self) ==
    [summary |-> self.audit_results.summary, passed_checks |-> self.passed_checks,
     warnings |-> self.warnings, errors |-> self.errors]

StatusCountingWarnings(self) ==
    IF self.errors = <<>> /\ self.warnings = <<>> THEN "PASSED" ELSE "FAILED"

\* 'PASSED' if not self.errors else 'FAILED'
Status(self) ==
    IF self.errors = <<>> THEN "PASSED" ELSE "FAILED"

CompileCountingWarnings(self) ==
    LET compiled ==
            [self EXCEPT !.audit_results =
                [summary |->
                    [total_checks |-> Len(self.passed_checks) + Len(self.errors)
                                      + Len(self.warnings),
                     passed |-> Len(self.passed_checks),
                     failed |-> Len(self.errors),
                     warnings |-> Len(self.warnings),
                     status |-> Status(self)]]]
    IN  Return(compiled, Report(compiled))

\* Compile audit results (audit_date, the wall-clock time of the run, is left out).
Compile(self) ==
    LET compiled ==
            [self EXCEPT !.audit_results =
                [summary |->
                    [total_checks |-> Len(self.passed_checks) + Len(self.errors),
                     passed |-> Len(self.passed_checks),
                     failed |-> Len(self.errors),
                     warnings |-> Len(self.warnings),
                     status |-> Status(self)]]]
    IN  Return(compiled, Report(compiled))

\* The body of run_all_audits on the instance as it stands.
RunChecks(self) ==
    LET c1 == validate_balance_sheet_equation(self)
        c2 == Then(c1, validate_current_assets_composition)
        c3 == Then(c2, validate_liability_equity_structure)
        c4 == Then(c3, validate_income_statement_flow)
        c5 == Then(c4, validate_income_statement_logic)
        c6 == Then(c5, validate_cash_flow_components)
        c7 == Then(c6, validate_investing_cash_flow_components)
        c8 == Then(c7, validate_financing_cash_flow_components)
        c9 == Then(c8, validate_net_income_to_cash_flow)
        c10 == Then(c9, validate_balance_sheet_consistency)
        c11 == Then(c10, validate_ratios_reasonableness)
    IN  Then(c11, Compile)

run_all_audits_fresh_lists(self) ==
    RunChecks([self EXCEPT !.errors = <<>>, !.warnings = <<>>, !.passed_checks = <<>>])

run_all_audits(self) ==
    RunChecks(self)

\* ---------------------------------------------------------------- Benford
\* A transaction amount is a Python int or float, held as its decimal rendering:
\* [neg, whole, frac], frac = <<>> for an int; -0.057 is
\* [neg |-> TRUE, whole |-> 0, frac |-> <<0, 5, 7>>] and 1000 is
\* [neg |-> FALSE, whole |-> 1000, frac |-> <<>>].
DigitChars == <<"0", "1", "2", "3", "4", "5", "6", "7", "8", "9">>

\* str(d) for one digit d, and int(char) for a digit character
DigitChar(d) ==
    DigitChars[d + 1]

IntOfChar(char) ==
    (CHOOSE n \in 1..10 : DigitChars[n] = char) - 1

\* char.isdigit()
IsDigit(char) ==
    \E n \in 1..10 : DigitChars[n] = char

RECURSIVE NatStr(_)
NatStr(n) ==
    IF n < 10 THEN <<DigitChar(n)>> ELSE NatStr(n \div 10) \o <<DigitChar(n % 10)>>

\* str(number), a sequence of characters
Str(number) ==
    (IF number.neg THEN <<"-">> ELSE <<>>)
    \o NatStr(number.whole)
    \o (IF number.frac = <<>>
        THEN <<>>
        ELSE <<".">> \o [n \in 1..Len(number.frac) |-> DigitChar(number.frac[n])])

\* abs(number)
AbsNumber(number) ==
    [number EXCEPT !.neg = FALSE]

\* s.replace(old, ''), old a single character
RECURSIVE Remove(_, _)
Remove(s, old) ==
    IF s = <<>> THEN <<>>
    ELSE IF Head(s) = old THEN Remove(Tail(s), old)
    ELSE <<Head(s)>> \o Remove(Tail(s), old)

\* Scale is the fixed-point unit of a probability: expected_probabilities[d] is
\* log10(1 + 1/d) * Scale, rounded to the nearest integer.
Scale == 10000000

expected_probabilities ==
    <<3010300, 1760913, 1249387, 969100, 791812, 669468, 579919, 511525, 457575>>

_extract_first_digit_keeping_zeros(number) ==
    LET num_str == Remove(Remove(Str(AbsNumber(number)), "."), "-")
        hits == {n \in 1..Len(num_str) : IsDigit(num_str[n])}
    IN  IF hits = {}
        THEN -1
        ELSE IntOfChar(num_str[CHOOSE n \in hits : \A m \in hits : n <= m])

_extract_first_digit(number) ==
    LET num_str == Remove(Remove(Str(AbsNumber(number)), "."), "-")
        hits == {n \in 1..Len(num_str) : IsDigit(num_str[n]) /\ num_str[n] # "0"}
    IN  IF hits = {}
        THEN -1
        ELSE IntOfChar(num_str[CHOOSE n \in hits : \A m \in hits : n <= m])

\* The loop of _count_first_digits from the counts so far: digit_counts[first_digit]
\* += 1 raises KeyError when first_digit is no key of digit_counts.
RECURSIVE CountLoop(_, _)
CountLoop(digit_counts, data) ==
    IF data = <<>>
    THEN [raised |-> FALSE, digit_counts |-> digit_counts]
    ELSE LET first_digit == _extract_first_digit(Head(data))
         IN  IF first_digit \in DOMAIN digit_counts
             THEN CountLoop([digit_counts EXCEPT ![first_digit] = @ + 1], Tail(data))
             ELSE [raised |-> TRUE, digit_counts |-> digit_counts]

_count_first_digits(data) ==
    CountLoop([digit \in 1..9 |-> 0], data)

RECURSIVE SumTo(_, _)
SumTo(f, n) ==
    IF n = 0 THEN 0 ELSE f[n] + SumTo(f, n - 1)

\* num / den rounded to the nearest integer (num >= 0, den > 0)
RoundDiv(num, den) ==
    (2 * num + den) \div (2 * den)

_calculate_mad_signed(digit_counts, total) ==
    LET deviations ==
            [digit \in 1..9 |->
                IF total > 0
                THEN digit_counts[digit] * Scale - expected_probabilities[digit] * total
                ELSE -expected_probabilities[digit]]
        weight == IF total > 0 THEN total ELSE 1
    IN  RoundDiv(SumTo(deviations, 9), 9 * weight * (Scale \div 100000))

_calculate_mad_zero_when_empty(digit_counts, total) ==
    LET deviations ==
            [digit \in 1..9 |->
                Abs(digit_counts[digit] * Scale - expected_probabilities[digit] * total)]
    IN  IF total > 0
        THEN RoundDiv(SumTo(deviations, 9), 9 * total * (Scale \div 100000))
        ELSE 0

\* round(mad, 5) in units of 0.00001, where mad is the mean over the digits 1..9 of
\* |actual_proportions[digit] - expected_probabilities[digit]| and
\* actual_proportions[digit] is digit_counts[digit] / total, or 0 when total is 0.
_calculate_mad(digit_counts, total) ==
    LET deviations ==
            [digit \in 1..9 |->
                IF total > 0
                THEN Abs(digit_counts[digit] * Scale - expected_probabilities[digit] * total)
                ELSE expected_probabilities[digit]]
        weight == IF total > 0 THEN total ELSE 1
    IN  RoundDiv(SumTo(deviations, 9), 9 * weight * (Scale \div 100000))

\* analyze: the results table (expected_value in tenths, as round(_, 1) leaves it) and
\* the rounded MAD, or the KeyError of _count_first_digits.
analyze(data) ==
    LET counted == _count_first_digits(data)
        digit_counts == counted.digit_counts
        total_transactions == SumTo(digit_counts, 9)
    IN  IF counted.raised
        THEN [status |-> "raised"]
        ELSE [status |-> "returned",
              results |-> [digit \in 1..9 |->
                  [expected_value |->
                       RoundDiv(expected_probabilities[digit] * total_transactions * 10,
                                Scale),
                   actual_value |-> digit_counts[digit]]],
              mad |-> _calculate_mad(digit_counts, total_transactions)]

interpret_mad_inclusive(mad) ==
    IF mad <= 600 THEN "Close conformity - data likely follows Benford's Law"
    ELSE IF mad <= 1200 THEN "Acceptable conformity - data reasonably follows Benford's Law"
    ELSE IF mad <= 1500 THEN "Marginally acceptable conformity - investigate further"
    ELSE "Non-conformity - potential data quality issues or fraud"

\* interpret_mad, mad in units of 0.00001
interpret_mad(mad) ==
    IF mad < 600 THEN "Close conformity - data likely follows Benford's Law"
    ELSE IF mad < 1200 THEN "Acceptable conformity - data reasonably follows Benford's Law"
    ELSE IF mad < 1500 THEN "Marginally acceptable conformity - investigate further"
    ELSE "Non-conformity - potential data quality issues or fraud"

\* ---------------------------------------------------------------- inputs
\* The empty dict, a dict with one key, and the dicts in which key k is absent or
\* holds a value of S.
EmptyDict ==
    [k \in {} |-> 0]

Opt(k, S) ==
    {EmptyDict} \cup {k :> v : v \in S}

\* A statement triple on which every check passes.
BaseBS ==
    [assets |-> [current_assets |-> 1, non_current_assets |-> 2],
     liabilities |-> [current_liabilities |-> 1, non_current_liabilities |-> 1],
     equity |-> [common_stock |-> 1, retained_earnings |-> 0]]

BaseIS ==
    [revenue |-> 8, cost_of_goods_sold |-> 4, gross_profit |-> 4,
     operating_expenses |-> 2, operating_income |-> 2, interest_expense |-> 0,
     income_tax_expense |-> 0, net_income |-> 2]

BaseCF ==
    [operating_activities |-> 2, investing_activities |-> -1, financing_activities |-> 0]

\* Balance sheets: the six totals, the optional components, and sheets with a
\* required key missing.
BSTotals ==
    {[assets |-> [current_assets |-> ca, non_current_assets |-> nca],
      liabilities |-> [current_liabilities |-> cl, non_current_liabilities |-> ncl],
      equity |-> [common_stock |-> cs, retained_earnings |-> re]] :
        ca \in {0, 1, 2}, nca \in {0, 1}, cl \in {-1, 0, 1, 2}, ncl \in {0, 1},
        cs \in {-1, 0, 1, 2}, re \in {-1, 0, 1}}

BSComponents ==
    {[BaseBS EXCEPT !.assets = @ @@ c @@ r @@ i] :
        c \in Opt("cash", {-1, 0, 1}), r \in Opt("accounts_receivable", {-1, 1}),
        i \in Opt("inventory", {-1, 1})}

BSDebt ==
    {[assets |-> BaseBS.assets,
      liabilities |-> [current_liabilities |-> cl, non_current_liabilities |-> 0] @@ d,
      equity |-> BaseBS.equity] :
        cl \in {-2, -1, 0, 1, 2}, d \in Opt("short_term_debt", {-1, 0, 1, 2, 3})}

\* d without key k
Without(d, k) ==
    [x \in DOMAIN d \ {k} |-> d[x]]

BSMissing ==
    {Without(BaseBS, outer) : outer \in DOMAIN BaseBS}
    \cup {[BaseBS EXCEPT ![outer] = Without(@, k)] :
            outer \in {"assets"}, k \in DOMAIN BaseBS.assets}
    \cup {[BaseBS EXCEPT ![outer] = Without(@, k)] :
            outer \in {"liabilities"}, k \in DOMAIN BaseBS.liabilities}
    \cup {[BaseBS EXCEPT ![outer] = Without(@, k)] :
            outer \in {"equity"}, k \in DOMAIN BaseBS.equity}

BalanceSheets ==
    BSTotals \cup BSComponents \cup BSDebt \cup BSMissing

\* Income statements: the three flow identities kept or broken, the bounds of the
\* logic check kept or broken, and statements with a field missing.
ISFlow ==
    {[revenue |-> revenue, cost_of_goods_sold |-> cogs, gross_profit |-> gp,
      operating_expenses |-> opex, operating_income |-> oi,
      interest_expense |-> it[1], income_tax_expense |-> it[2],
      net_income |-> oi - it[1] - it[2] + slip] :
        revenue \in {-1, 0, 4}, cogs \in {2, 5}, gp \in {-1, 2, 4},
        opex \in {-1, 1}, oi \in {1, 3},
        it \in {<<0, 0>>, <<-1, 0>>, <<1, -1>>}, slip \in {0, 1}}

ISMissing ==
    {Without(BaseIS, k) : k \in DOMAIN BaseIS} \cup {EmptyDict}

IncomeStatements ==
    ISFlow \cup ISMissing \cup {BaseIS}

\* Cash-flow statements: the three activity totals, and the optional components.
CFTotals ==
    {o @@ i @@ f :
        o \in Opt("operating_activities", {-1, 0, 1, 2, 4, 5}),
        i \in Opt("investing_activities", {-1, 1}),
        f \in Opt("financing_activities", {0, 1})}

CFInvesting ==
    {BaseCF @@ c @@ d :
        c \in Opt("capital_expenditure", {-1, 0, 1}),
        d \in Opt("depreciation", {-1, 0, 1})}

CFFinancing ==
    {BaseCF @@ i @@ r @@ d :
        i \in Opt("debt_issuance", {-1, 0, 1}),
        r \in Opt("debt_repayment", {-1, 0, 1}),
        d \in Opt("dividends_paid", {-1, 0, 1})}

CashFlows ==
    CFTotals \cup CFInvesting \cup CFFinancing

\* Net income and operating cash flow varied together: net income negative, 0, odd,
\* even and absent against operating cash flows on and next to half and twice of it.
ISNetIncome ==
    {[BaseIS EXCEPT !.net_income = net_income] : net_income \in {-2, 0, 1, 3}}
    \cup {Without(BaseIS, "net_income")}

CFOperating ==
    {[BaseCF EXCEPT !.operating_activities = ocf] : ocf \in {-1, 0, 1, 2, 4, 5, 6, 7}}
    \cup {Without(BaseCF, "operating_activities")}

\* Triples in which the three statements vary together.
BSMix ==
    {[assets |-> [current_assets |-> ca, non_current_assets |-> 0],
      liabilities |-> [current_liabilities |-> cl, non_current_liabilities |-> 0,
                       short_term_debt |-> 0],
      equity |-> [common_stock |-> 1, retained_earnings |-> re]] :
        ca \in {0, 2}, cl \in {0, 1}, re \in {-2, 1}}

ISMix ==
    {[revenue |-> revenue, cost_of_goods_sold |-> cogs, gross_profit |-> revenue - cogs,
      operating_expenses |-> 1, operating_income |-> revenue - cogs - 1 + slip,
      interest_expense |-> 0, income_tax_expense |-> 0,
      net_income |-> revenue - cogs - 1 + slip] :
        revenue \in {0, 4}, cogs \in {2, 5}, slip \in {0, 1}}

CFMix ==
    {BaseCF @@ c @@ d :
        c \in Opt("capital_expenditure", {1}), d \in Opt("depreciation", {-1, 1})}

\* Triples for the ratio check: margins on and next to the bounds -1, 101 and -101
\* for a revenue of 100 or -100, revenue 0, revenue absent, and debt-to-assets
\* ratios on and next to 0 and 200 for positive, negative and zero total assets.
BSRatios ==
    {[assets |-> [current_assets |-> ca, non_current_assets |-> 0],
      liabilities |-> [current_liabilities |-> cl, non_current_liabilities |-> 0],
      equity |-> BaseBS.equity] :
        ca \in {-1, 0, 1}, cl \in {-1, 0, 2, 3}}

ISRatios ==
    {[revenue |-> 100 * sign, cost_of_goods_sold |-> 0, gross_profit |-> gp * sign,
      operating_expenses |-> 0, operating_income |-> oi * sign,
      interest_expense |-> 0, income_tax_expense |-> 0, net_income |-> -(oi * sign)] :
        sign \in {-1, 0, 1}, gp \in {-2, -1, 101, 102}, oi \in {-102, -101, 101, 102}}
    \cup {[cost_of_goods_sold |-> 0, gross_profit |-> gp, operating_expenses |-> 0,
           operating_income |-> oi, interest_expense |-> 0, income_tax_expense |-> 0,
           net_income |-> 0] :
            gp \in {1, 2}, oi \in {-1, -2}}

\* ---------------------------------------------------------------- state machine
\* FinancialStatementAuditor.__init__ on a triple of the given sets; no Benford
\* call has been made.
Construct(sheets, statements, flows) ==
    /\ bs \in sheets
    /\ is_ \in statements
    /\ cf \in flows
    /\ errors = <<>>
    /\ warnings = <<>>
    /\ passed_checks = <<>>
    /\ audit_results = ("Balance Sheet" :> EmptyDict @@ "Income Statement" :> EmptyDict
                        @@ "Cash Flow" :> EmptyDict @@ "Cross-Statement" :> EmptyDict)
    /\ last = [op |-> "__init__", raised |-> FALSE, ret |-> "None"]
    /\ calls = <<>>
    /\ transactions = <<>>
    /\ benford = [status |-> "none"]
    /\ interpretation = [status |-> "none"]

Init ==
    Construct(BSMix \cup {BaseBS}, ISMix \cup {BaseIS}, CFMix \cup {BaseCF})

InitBS ==
    Construct(BalanceSheets, {BaseIS}, {BaseCF})

InitIS ==
    Construct({BaseBS}, IncomeStatements, {BaseCF})

InitCF ==
    \/ Construct({BaseBS}, {BaseIS}, CashFlows)
    \/ Construct({BaseBS}, ISNetIncome, CFOperating)

InitRatios ==
    Construct(BSRatios, ISRatios, {BaseCF})

InitBenford ==
    Construct({BaseBS}, {BaseIS}, {BaseCF})

\* A call of an auditor method: the instance takes the outcome's lists and report,
\* the caller gets the return value or the exception.
Call(op, out) ==
    /\ Len(calls) < MaxCalls
    /\ calls' = Append(calls, op)
    /\ errors' = out.self.errors
    /\ warnings' = out.self.warnings
    /\ passed_checks' = out.self.passed_checks
    /\ audit_results' = out.self.audit_results
    /\ last' = [op |-> op, raised |-> out.raised, ret |-> out.ret]
    /\ UNCHANGED <<bs, is_, cf, benfordVars>>

ValidateBalanceSheetEquation ==
    Call("validate_balance_sheet_equation", validate_balance_sheet_equation(Self))

ValidateCurrentAssetsComposition ==
    Call("validate_current_assets_composition", validate_current_assets_composition(Self))

ValidateLiabilityEquityStructure ==
    Call("validate_liability_equity_structure", validate_liability_equity_structure(Self))

ValidateIncomeStatementFlow ==
    Call("validate_income_statement_flow", validate_income_statement_flow(Self))

ValidateIncomeStatementLogic ==
    Call("validate_income_statement_logic", validate_income_statement_logic(Self))

ValidateCashFlowComponents ==
    Call("validate_cash_flow_components", validate_cash_flow_components(Self))

ValidateInvestingCashFlowComponents ==
    Call("validate_investing_cash_flow_components",
         validate_investing_cash_flow_components(Self))

ValidateFinancingCashFlowComponents ==
    Call("validate_financing_cash_flow_components",
         validate_financing_cash_flow_components(Self))

ValidateNetIncomeToCashFlow ==
    Call("validate_net_income_to_cash_flow", validate_net_income_to_cash_flow(Self))

ValidateBalanceSheetConsistency ==
    Call("validate_balance_sheet_consistency", validate_balance_sheet_consistency(Self))

ValidateRatiosReasonableness ==
    Call("validate_ratios_reasonableness", validate_ratios_reasonableness(Self))

RunAllAudits ==
    Call("run_all_audits", run_all_audits(Self))

\* The amounts a transaction collection is drawn from: 0, 0.0, 1000, -0.057, 2.5
\* and 900.
Amounts ==
    {[neg |-> FALSE, whole |-> 0, frac |-> <<>>],
     [neg |-> FALSE, whole |-> 0, frac |-> <<0>>],
     [neg |-> FALSE, whole |-> 1000, frac |-> <<>>],
     [neg |-> TRUE, whole |-> 0, frac |-> <<0, 5, 7>>],
     [neg |-> FALSE, whole |-> 2, frac |-> <<5>>],
     [neg |-> FALSE, whole |-> 900, frac |-> <<>>]}

\* The values of a transaction dict in insertion order (the ids are never read).
TxCollections ==
    UNION {[1..n -> Amounts] : n \in 0..MaxTx}

\* MAD arguments of interpret_mad, in units of 0.00001: the class boundaries, their
\* neighbours, and the MAD analyze last returned.
MadInputs ==
    {0, 599, 600, 1199, 1200, 1499, 1500, 1501}
    \cup (IF benford.status = "returned" THEN {benford.mad} ELSE {})

Analyze ==
    /\ \E data \in TxCollections :
           /\ transactions' = data
           /\ benford' = analyze(data)
    /\ UNCHANGED <<auditorVars, interpretation>>

InterpretMad ==
    /\ \E mad \in MadInputs :
           interpretation' = [status |-> "returned", mad |-> mad, label |-> interpret_mad(mad)]
    /\ UNCHANGED <<auditorVars, transactions, benford>>

\* The auditor and the Benford analyzer are separate objects sharing no state:
\* Next is the auditor's methods, NextBenford the analyzer's.
Next ==
    \/ ValidateBalanceSheetEquation
    \/ ValidateCurrentAssetsComposition
    \/ ValidateLiabilityEquityStructure
    \/ ValidateIncomeStatementFlow
    \/ ValidateIncomeStatementLogic
    \/ ValidateCashFlowComponents
    \/ ValidateInvestingCashFlowComponents
    \/ ValidateFinancingCashFlowComponents
    \/ ValidateNetIncomeToCashFlow
    \/ ValidateBalanceSheetConsistency
    \/ ValidateRatiosReasonableness
    \/ RunAllAudits

NextBenford ==
    \/ Analyze
    \/ InterpretMad

Spec == Init /\ [][Next]_vars
SpecBS == InitBS /\ [][Next]_vars
SpecIS == InitIS /\ [][Next]_vars
SpecCF == InitCF /\ [][Next]_vars
SpecRatios == InitRatios /\ [][Next]_vars
SpecBenford == InitBenford /\ [][NextBenford]_vars

\* ---------------------------------------------------------------- properties
\* The step is a call of method op.
Called(op) ==
    calls' = Append(calls, op)

\* The entries a step appended to a list
NewOf(after, before) ==
    SubSeq(after, Len(before) + 1, Len(after))

\* The six balance-sheet totals are present.
BSComplete ==
    /\ HasPath(bs, "assets", "current_assets")
    /\ HasPath(bs, "assets", "non_current_assets")
    /\ HasPath(bs, "liabilities", "current_liabilities")
    /\ HasPath(bs, "liabilities", "non_current_liabilities")
    /\ HasPath(bs, "equity", "common_stock")
    /\ HasPath(bs, "equity", "retained_earnings")

\* assets - (liabilities + equity) of a complete balance sheet
Discrepancy ==
    (bs.assets.current_assets + bs.assets.non_current_assets)
    - ((bs.liabilities.current_liabilities + bs.liabilities.non_current_liabilities)
       + (bs.equity.common_stock + bs.equity.retained_earnings))

\* C1: on a balance sheet whose assets equal liabilities plus equity,
\* validate_balance_sheet_equation returns true, appends exactly one finding to
\* passed_checks, with status PASS and difference 0, and leaves errors and warnings
\* unchanged.
C1_BalancedEquationPasses ==
    [][(Called("validate_balance_sheet_equation") /\ BSComplete /\ Discrepancy = 0)
       => /\ ~last'.raised
          /\ last'.ret = TRUE
          /\ Len(passed_checks') = Len(passed_checks) + 1
          /\ SubSeq(passed_checks', 1, Len(passed_checks)) = passed_checks
          /\ passed_checks'[Len(passed_checks')].status = "PASS"
          /\ passed_checks'[Len(passed_checks')].difference = 0
          /\ errors' = errors
          /\ warnings' = warnings]_vars

C1_Witness ==
    /\ last.op = "validate_balance_sheet_equation"
    /\ BSComplete
    /\ Discrepancy = 0
    /\ bs.equity.retained_earnings # 0
    /\ last.ret = TRUE
    /\ errors = <<>>
    /\ Len(passed_checks) = 1
    /\ passed_checks[1].status = "PASS"
    /\ passed_checks[1].difference = 0

\* C2: on a balance sheet whose assets differ from liabilities plus equity,
\* validate_balance_sheet_equation returns false, appends exactly one finding to
\* errors, FAIL/CRITICAL with the signed difference assets - (liabilities + equity),
\* appends nothing to passed_checks, and run_all_audits reports status FAILED.
C2_UnbalancedEquationFails ==
    [][/\ (Called("validate_balance_sheet_equation") /\ BSComplete /\ Discrepancy # 0)
          => /\ ~last'.raised
             /\ last'.ret = FALSE
             /\ Len(errors') = Len(errors) + 1
             /\ SubSeq(errors', 1, Len(errors)) = errors
             /\ errors'[Len(errors')].status = "FAIL"
             /\ errors'[Len(errors')].severity = "CRITICAL"
             /\ errors'[Len(errors')].difference = Discrepancy
             /\ passed_checks' = passed_checks
       /\ (Called("run_all_audits") /\ BSComplete /\ Discrepancy # 0)
          => /\ ~last'.raised
             /\ last'.ret.summary.status = "FAILED"
             /\ \E n \in (Len(errors) + 1)..Len(errors') :
                    /\ errors'[n].check = "Balance Sheet Equation (A = L + E)"
                    /\ errors'[n].difference = Discrepancy]_vars

C2_Witness ==
    /\ calls = <<"validate_balance_sheet_equation", "run_all_audits">>
    /\ BSComplete
    /\ Abs(Discrepancy) = 1
    /\ ~last.raised
    /\ last.ret.summary.status = "FAILED"
    /\ errors[1].status = "FAIL"
    /\ errors[1].severity = "CRITICAL"
    /\ errors[1].difference = Discrepancy
    /\ errors[2] = errors[1]

\* C3: in every report run_all_audits returns, summary.status is FAILED exactly when
\* the report's errors list is non-empty and PASSED otherwise, whatever the warnings
\* list holds.
C3_StatusFailedIffErrors ==
    (last.op = "run_all_audits" /\ ~last.raised)
    => /\ last.ret.summary.status \in {"PASSED", "FAILED"}
       /\ (last.ret.summary.status = "FAILED") <=> (last.ret.errors # <<>>)
       /\ audit_results.summary.status = last.ret.summary.status
       /\ last.ret.errors = errors

C3_Witness ==
    /\ last.op = "run_all_audits"
    /\ ~last.raised
    /\ last.ret.warnings # <<>>
    /\ last.ret.errors = <<>>
    /\ last.ret.summary.status = "PASSED"

\* The fields of the income statement that the flow check reads
ISFields ==
    {"revenue", "cost_of_goods_sold", "gross_profit", "operating_expenses",
     "operating_income", "interest_expense", "income_tax_expense", "net_income"}

\* C4: when a required income-statement field is absent, a check that reads it fails
\* the call (raises) instead of taking the field as zero and recording findings:
\* validate_income_statement_flow reads all eight fields, and
\* validate_income_statement_logic reads revenue first.
C4_MissingIncomeFieldRaises ==
    /\ (last.op = "validate_income_statement_flow" /\ ~(ISFields \subseteq DOMAIN is_))
       => last.raised
    /\ (last.op = "validate_income_statement_logic" /\ "revenue" \notin DOMAIN is_)
       => last.raised

\* Every field the checks subscript or read is present: the six balance-sheet totals,
\* the eight income-statement fields and the three cash-flow totals.
AllReferencedPresent ==
    /\ BSComplete
    /\ ISFields \subseteq DOMAIN is_
    /\ {"operating_activities", "investing_activities", "financing_activities"}
           \subseteq DOMAIN cf

\* The names under which each of the first ten checks records its findings
CheckNames ==
    << {"Balance Sheet Equation (A = L + E)"},
       {"Current Assets Composition"},
       {"Liability and Equity Structure"},
       {"Gross Profit Calculation (Revenue - COGS)", "Gross Profit Calculation"},
       {"Income Statement Logic"},
       {"Cash Flow Reconciliation"},
       {"Investing CF Components"},
       {"Financing CF Components"},
       {"Net Income to Operating CF"},
       {"Balance Sheet Item Consistency"} >>

\* Some finding of the sequence carries one of the names.
Recorded(findings, names) ==
    \E n \in 1..Len(findings) : findings[n].check \in names

\* C5: on a triple with every referenced field present (revenue 0, total assets 0,
\* negative values and broken identities included) run_all_audits never raises: every
\* check runs and leaves its finding, the ratio check last, and a report is returned
\* whose lists are the instance's lists.
C5_RunAllNeverRaises ==
    [][(Called("run_all_audits") /\ AllReferencedPresent)
       => LET new == NewOf(passed_checks', passed_checks) \o NewOf(warnings', warnings)
                     \o NewOf(errors', errors)
          IN  /\ ~last'.raised
              /\ \A c \in 1..Len(CheckNames) : Recorded(new, CheckNames[c])
              /\ (is_.revenue # 0)
                 => Recorded(new, {"Financial Ratios Reasonableness - Net Margin"})
              /\ (bs.assets.current_assets + bs.assets.non_current_assets # 0)
                 => Recorded(new, {"Financial Ratios Reasonableness - Debt to Assets"})
              /\ last'.ret.summary = audit_results'.summary
              /\ last'.ret.errors = errors'
              /\ last'.ret.warnings = warnings'
              /\ last'.ret.passed_checks = passed_checks'
              /\ last'.ret.summary.total_checks = Len(passed_checks') + Len(errors')]_vars

C5_Witness ==
    /\ calls = <<"run_all_audits">>
    /\ AllReferencedPresent
    /\ is_.revenue = 0
    /\ bs.assets.current_assets + bs.assets.non_current_assets = 0
    /\ bs.equity.retained_earnings < 0
    /\ ~last.raised
    /\ last.ret.summary.status = "FAILED"
    /\ last.ret.warnings # <<>>

\* An amount with no non-zero digit: 0 or 0.0
IsZeroAmount(amount) ==
    amount.whole = 0 /\ \A n \in 1..Len(amount.frac) : amount.frac[n] = 0

\* C6: when the collection holds an amount with no non-zero leading digit,
\* Benford.analyze does not raise, and the count of each digit 1..9 is the number of
\* the remaining records with that leading digit.
C6_ZeroAmountExcluded ==
    (benford.status # "none"
     /\ \E n \in 1..Len(transactions) : IsZeroAmount(transactions[n]))
    => /\ benford.status = "returned"
       /\ \A digit \in 1..9 :
              benford.results[digit].actual_value =
                  Cardinality({n \in 1..Len(transactions) :
                                   /\ ~IsZeroAmount(transactions[n])
                                   /\ _extract_first_digit(transactions[n]) = digit})

\* C7: for an empty collection Benford.analyze returns without a division error:
\* every digit has actual_value 0 and expected_value 0, and the MAD is the mean of the
\* nine expected probabilities, 0.11111.
C7_EmptyCollection ==
    (benford.status # "none" /\ transactions = <<>>)
    => /\ benford.status = "returned"
       /\ \A digit \in 1..9 :
              /\ benford.results[digit].actual_value = 0
              /\ benford.results[digit].expected_value = 0
       /\ benford.mad = 11111

C7_Witness ==
    /\ benford.status = "returned"
    /\ transactions = <<>>
    /\ benford.mad > 0
    /\ benford.results[1] = [expected_value |-> 0, actual_value |-> 0]
    /\ benford.results[9] = [expected_value |-> 0, actual_value |-> 0]

\* The first of k equal parts of a list
FirstRun(list, k) ==
    SubSeq(list, 1, Len(list) \div k)

\* C8: run_all_audits called again on the same instance re-appends its findings: after
\* k calls each list holds k times the entries of one run, in the same repeating order,
\* and the k-th report counts k times what the first report counted.  Stated as the
\* step from k calls to k + 1.
C8_RerunAppendsAgain ==
    [][(/\ calls # <<>>
        /\ \A n \in 1..Len(calls) : calls[n] = "run_all_audits"
        /\ ~last.raised
        /\ Called("run_all_audits"))
       => LET k == Len(calls)
          IN  /\ ~last'.raised
              /\ passed_checks' = passed_checks \o FirstRun(passed_checks, k)
              /\ warnings' = warnings \o FirstRun(warnings, k)
              /\ errors' = errors \o FirstRun(errors, k)
              /\ Len(passed_checks) = k * Len(FirstRun(passed_checks, k))
              /\ Len(warnings) = k * Len(FirstRun(warnings, k))
              /\ Len(errors) = k * Len(FirstRun(errors, k))
              /\ last'.ret.summary.passed = (k + 1) * Len(FirstRun(passed_checks, k))
              /\ last'.ret.summary.warnings = (k + 1) * Len(FirstRun(warnings, k))
              /\ last'.ret.summary.failed = (k + 1) * Len(FirstRun(errors, k))
              /\ last.ret.summary.passed = k * Len(FirstRun(passed_checks, k))
              /\ last.ret.summary.warnings = k * Len(FirstRun(warnings, k))
              /\ last.ret.summary.failed = k * Len(FirstRun(errors, k))]_vars

C8_Witness ==
    /\ calls = <<"run_all_audits", "run_all_audits">>
    /\ ~last.raised
    /\ Len(errors) = 2
    /\ errors[1] = errors[2]
    /\ Len(warnings) = 4
    /\ SubSeq(warnings, 1, 2) = SubSeq(warnings, 3, 4)
    /\ last.ret.summary.failed = 2
    /\ last.ret.summary.passed = Len(passed_checks)

\* The names of the three margin findings
MarginNames ==
    {"Financial Ratios Reasonableness - Gross Margin",
     "Financial Ratios Reasonableness - Operating Margin",
     "Financial Ratios Reasonableness - Net Margin"}

\* Some finding of the sequence has the name and the value.
RecordedValue(findings, name, value) ==
    \E n \in 1..Len(findings) : findings[n].check = name /\ findings[n].value = value

\* C9 as claimed: with revenue exactly 0, validate_ratios_reasonableness takes revenue
\* as 1 and records one finding each for the gross, operating and net margin, worth
\* gross_profit, operating_income and net_income divided by 1.
C9_ZeroRevenueTakenAsOne ==
    (/\ calls = <<"validate_ratios_reasonableness">>
     /\ AllReferencedPresent
     /\ is_.revenue = 0)
    => LET found == passed_checks \o warnings
       IN  /\ RecordedValue(found, "Financial Ratios Reasonableness - Gross Margin",
                            10000 * is_.gross_profit)
           /\ RecordedValue(found, "Financial Ratios Reasonableness - Operating Margin",
                            10000 * is_.operating_income)
           /\ RecordedValue(found, "Financial Ratios Reasonableness - Net Margin",
                            10000 * is_.net_income)

\* C9 amended: with revenue exactly 0, validate_ratios_reasonableness skips the three
\* margin checks and records no margin finding; it records exactly one debt-to-assets
\* finding when total assets are not 0 and nothing at all when they are 0, returns
\* true and leaves errors unchanged.
C9_ZeroRevenueSkipsMargins ==
    [][(/\ Called("validate_ratios_reasonableness")
        /\ AllReferencedPresent
        /\ is_.revenue = 0)
       => LET new == NewOf(passed_checks', passed_checks) \o NewOf(warnings', warnings)
              total_assets == bs.assets.current_assets + bs.assets.non_current_assets
          IN  /\ ~last'.raised
              /\ last'.ret = TRUE
              /\ errors' = errors
              /\ ~Recorded(new, MarginNames)
              /\ Len(new) = IF total_assets # 0 THEN 1 ELSE 0
              /\ (total_assets # 0)
                 => new[1].check = "Financial Ratios Reasonableness - Debt to Assets"]_vars

C9_Witness ==
    /\ calls = <<"validate_ratios_reasonableness">>
    /\ AllReferencedPresent
    /\ is_.revenue = 0
    /\ is_.gross_profit # 0
    /\ bs.assets.current_assets + bs.assets.non_current_assets # 0
    /\ last.ret = TRUE
    /\ Len(passed_checks) + Len(warnings) = 1
    /\ ~Recorded(passed_checks \o warnings, MarginNames)

\* C10: when gross_profit - operating_expenses differs from operating_income,
\* validate_income_statement_flow appends exactly one finding for that sub-check, to
\* errors and not to warnings, with severity HIGH and status tag WARNING, and returns
\* false; run_all_audits then reports FAILED, also when nothing else is violated.
C10_OperatingIncomeMismatchIsError ==
    [][/\ (/\ Called("validate_income_statement_flow")
           /\ ISFields \subseteq DOMAIN is_
           /\ is_.gross_profit - is_.operating_expenses # is_.operating_income)
          => LET new == NewOf(errors', errors)
                 hits == {n \in 1..Len(new) :
                              new[n].check = "Operating Income Calculation"}
             IN  /\ Cardinality(hits) = 1
                 /\ \A n \in hits : new[n].severity = "HIGH" /\ new[n].status = "WARNING"
                 /\ SubSeq(errors', 1, Len(errors)) = errors
                 /\ warnings' = warnings
                 /\ ~Recorded(NewOf(passed_checks', passed_checks),
                              {"Operating Income Calculation (GP - OpEx)"})
                 /\ last'.ret = FALSE
       /\ (/\ Called("run_all_audits")
           /\ AllReferencedPresent
           /\ is_.gross_profit - is_.operating_expenses # is_.operating_income)
          => /\ Recorded(NewOf(errors', errors), {"Operating Income Calculation"})
             /\ last'.ret.summary.status = "FAILED"]_vars

C10_Witness ==
    /\ calls = <<"run_all_audits">>
    /\ ISFields \subseteq DOMAIN is_
    /\ is_.gross_profit - is_.operating_expenses # is_.operating_income
    /\ Len(errors) = 1
    /\ errors[1].check = "Operating Income Calculation"
    /\ errors[1].status = "WARNING"
    /\ errors[1].severity = "HIGH"
    /\ warnings = <<>>
    /\ last.ret.summary.status = "FAILED"
    /\ last.ret.summary.failed = 1

\* The four balance-sheet totals the ratio check subscripts are present.
RatioTotalsPresent ==
    /\ HasPath(bs, "assets", "current_assets")
    /\ HasPath(bs, "assets", "non_current_assets")
    /\ HasPath(bs, "liabilities", "current_liabilities")
    /\ HasPath(bs, "liabilities", "non_current_liabilities")

\* lo <= value / base * 100 <= hi for base # 0, both sides multiplied by base * base
MarginWithin(value, base, lo, hi) ==
    lo * base * base <= 100 * value * base /\ 100 * value * base <= hi * base * base

\* The positions of the findings of a sequence that carry the name
Named(findings, name) ==
    {n \in 1..Len(findings) : findings[n].check = name}

\* Among the new findings there is exactly one of that name when base # 0, a PASS in
\* passed_checks when the ratio is within [lo, hi] and a WARNING in warnings otherwise,
\* and none when base = 0.
OneRatioFinding(new_passed, new_warnings, name, value, base, lo, hi) ==
    IF base = 0
    THEN Named(new_passed, name) = {} /\ Named(new_warnings, name) = {}
    ELSE IF MarginWithin(value, base, lo, hi)
    THEN /\ Cardinality(Named(new_passed, name)) = 1
         /\ \A n \in Named(new_passed, name) : new_passed[n].status = "PASS"
         /\ Named(new_warnings, name) = {}
    ELSE /\ Cardinality(Named(new_warnings, name)) = 1
         /\ \A n \in Named(new_warnings, name) : new_warnings[n].status = "WARNING"
         /\ Named(new_passed, name) = {}

RECURSIVE TopDigit(_)
TopDigit(n) ==
    IF n < 10 THEN n ELSE TopDigit(n \div 10)

\* The first non-zero digit of an amount, from its value: the top digit of the whole
\* part, or of the fraction when the whole part is 0; 0 when every digit is 0.
LeadingDigit(amount) ==
    IF amount.whole > 0
    THEN TopDigit(amount.whole)
    ELSE LET nonzero == {n \in 1..Len(amount.frac) : amount.frac[n] # 0}
         IN  IF nonzero = {}
             THEN 0
             ELSE amount.frac[CHOOSE n \in nonzero : \A m \in nonzero : n <= m]

\* The amount with the opposite sign
Negated(amount) ==
    [amount EXCEPT !.neg = ~@]

\* C12: for every amount that is not zero _extract_first_digit returns the first
\* non-zero digit, in 1..9, of the amount's absolute value, whatever the sign and the
\* place of the decimal point (5 for -0.057, 1 for 1000, the same for x and -x); for 0
\* and 0.0 it returns -1, its signal that there is no leading digit.  The counts that
\* analyze returns are the counts of these digits.
C12_FirstNonZeroDigit ==
    (benford.status # "none")
    => /\ \A n \in 1..Len(transactions) :
              LET amount == transactions[n]
                  first_digit == _extract_first_digit(amount)
              IN  /\ IsZeroAmount(amount) => first_digit = -1
                  /\ ~IsZeroAmount(amount)
                     => first_digit \in 1..9 /\ first_digit = LeadingDigit(amount)
                  /\ _extract_first_digit(Negated(amount)) = first_digit
       /\ (benford.status = "returned")
          => \A digit \in 1..9 :
                 benford.results[digit].actual_value =
                     Cardinality({n \in 1..Len(transactions) :
                                      LeadingDigit(transactions[n]) = digit})

\* analyze has counted -0.057 under 5 and 1000 under 1.
C12_Witness ==
    /\ benford.status = "returned"
    /\ transactions = << [neg |-> TRUE, whole |-> 0, frac |-> <<0, 5, 7>>],
                         [neg |-> FALSE, whole |-> 1000, frac |-> <<>>] >>
    /\ benford.results[5].actual_value = 1
    /\ benford.results[1].actual_value = 1
    /\ \A digit \in 1..9 \ {1, 5} : benford.results[digit].actual_value = 0

\* The four labels of interpret_mad, from the best class to the worst
MadLabels ==
    << "Close conformity - data likely follows Benford's Law",
       "Acceptable conformity - data reasonably follows Benford's Law",
       "Marginally acceptable conformity - investigate further",
       "Non-conformity - potential data quality issues or fraud" >>

\* C13: interpret_mad gives every MAD exactly one of the four labels, with strict upper
\* bounds: below 0.006 close conformity, from 0.006 and below 0.012 acceptable
\* conformity, from 0.012 and below 0.015 marginally acceptable, from 0.015 on
\* non-conformity; 0.006, 0.012 and 0.015 fall in the worse class.  (MAD in units of
\* 0.00001.)
C13_MadClasses ==
    (interpretation.status = "returned")
    => LET mad == interpretation.mad
           label == interpretation.label
       IN  /\ Cardinality({c \in 1..4 : MadLabels[c] = label}) = 1
           /\ (label = MadLabels[1]) <=> (mad < 600)
           /\ (label = MadLabels[2]) <=> (600 <= mad /\ mad < 1200)
           /\ (label = MadLabels[3]) <=> (1200 <= mad /\ mad < 1500)
           /\ (label = MadLabels[4]) <=> (mad >= 1500)

\* The boundary 0.012 is classed as marginally acceptable.
C13_Witness ==
    /\ interpretation.status = "returned"
    /\ interpretation.mad = 1200
    /\ interpretation.label = "Marginally acceptable conformity - investigate further"

\* C14: for every collection analyze accepts (returns on), the returned MAD lies in
\* [0, 2].  (MAD in units of 0.00001.)
C14_MadBounded ==
    (benford.status = "returned")
    => 0 <= benford.mad /\ benford.mad <= 2 * 100000

\* A collection whose amounts all lead with 9: the MAD is far from 0 and within 2.
C14_Witness ==
    /\ benford.status = "returned"
    /\ transactions # <<>>
    /\ \A n \in 1..Len(transactions) : _extract_first_digit(transactions[n]) = 9
    /\ benford.mad > 20000
    /\ benford.mad <= 2 * 100000

\* The positions of the findings of a sequence about the item
OfItem(findings, item) ==
    {n \in 1..Len(findings) : "item" \in DOMAIN findings[n] /\ findings[n].item = item}

\* Exactly one of the new findings is about the item when the condition holds, and
\* none otherwise.
OneIff(findings, item, condition) ==
    Cardinality(OfItem(findings, item)) = IF condition THEN 1 ELSE 0

\* C15: validate_financing_cash_flow_components never fails: on every cash-flow record
\* it returns true, appends nothing to errors, appends exactly one PASS finding, and
\* appends exactly one WARNING for each of debt_issuance < 0, debt_repayment > 0 and
\* dividends_paid > 0 that holds and no other warning; an absent field counts as 0 and
\* gives no warning.
C15_FinancingNeverFails ==
    [][Called("validate_financing_cash_flow_components")
       => LET new_passed == NewOf(passed_checks', passed_checks)
              new_warnings == NewOf(warnings', warnings)
              issuance_negative == "debt_issuance" \in DOMAIN cf /\ cf.debt_issuance < 0
              repayment_positive == "debt_repayment" \in DOMAIN cf /\ cf.debt_repayment > 0
              dividends_positive == "dividends_paid" \in DOMAIN cf /\ cf.dividends_paid > 0
          IN  /\ ~last'.raised
              /\ last'.ret = TRUE
              /\ errors' = errors
              /\ SubSeq(passed_checks', 1, Len(passed_checks)) = passed_checks
              /\ SubSeq(warnings', 1, Len(warnings)) = warnings
              /\ new_passed = << [check |-> "Financing CF Components", status |-> "PASS"] >>
              /\ OneIff(new_warnings, "Debt Issuance", issuance_negative)
              /\ OneIff(new_warnings, "Debt Repayment", repayment_positive)
              /\ OneIff(new_warnings, "Dividends Paid", dividends_positive)
              /\ Len(new_warnings) = Cardinality({c \in {1, 2, 3} :
                                         \/ c = 1 /\ issuance_negative
                                         \/ c = 2 /\ repayment_positive
                                         \/ c = 3 /\ dividends_positive})
              /\ \A n \in 1..Len(new_warnings) :
                     /\ new_warnings[n].status = "WARNING"
                     /\ new_warnings[n].check = "Financing CF Components"]_vars

\* All three conditions hold: three warnings, one PASS, no error, true.
C15_Witness ==
    /\ calls = <<"validate_financing_cash_flow_components">>
    /\ {"debt_issuance", "debt_repayment", "dividends_paid"} \subseteq DOMAIN cf
    /\ cf.debt_issuance < 0
    /\ cf.debt_repayment > 0
    /\ cf.dividends_paid > 0
    /\ last.ret = TRUE
    /\ Len(warnings) = 3
    /\ Len(passed_checks) = 1
    /\ errors = <<>>

\* C16: validate_investing_cash_flow_components takes an absent capital_expenditure or
\* depreciation as 0; it appends one WARNING exactly when capital_expenditure > 0; when
\* depreciation < 0 it appends exactly one FAIL/MEDIUM finding to errors, no PASS, and
\* returns false; otherwise it appends exactly one PASS, nothing to errors, and returns
\* true.  A record holding only the three activity totals gives one PASS and no
\* warning or error.
C16_InvestingComponents ==
    [][Called("validate_investing_cash_flow_components")
       => LET new_passed == NewOf(passed_checks', passed_checks)
              new_warnings == NewOf(warnings', warnings)
              new_errors == NewOf(errors', errors)
              capex_positive ==
                  "capital_expenditure" \in DOMAIN cf /\ cf.capital_expenditure > 0
              depreciation_negative == "depreciation" \in DOMAIN cf /\ cf.depreciation < 0
          IN  /\ ~last'.raised
              /\ SubSeq(passed_checks', 1, Len(passed_checks)) = passed_checks
              /\ SubSeq(warnings', 1, Len(warnings)) = warnings
              /\ SubSeq(errors', 1, Len(errors)) = errors
              /\ Len(new_warnings) = IF capex_positive THEN 1 ELSE 0
              /\ capex_positive
                 => /\ new_warnings[1].status = "WARNING"
                    /\ new_warnings[1].item = "Capital Expenditure"
              /\ IF depreciation_negative
                 THEN /\ Len(new_errors) = 1
                      /\ new_errors[1].status = "FAIL"
                      /\ new_errors[1].severity = "MEDIUM"
                      /\ new_errors[1].item = "Depreciation"
                      /\ new_passed = <<>>
                      /\ last'.ret = FALSE
                 ELSE /\ new_errors = <<>>
                      /\ new_passed = << [check |-> "Investing CF Components",
                                          status |-> "PASS"] >>
                      /\ last'.ret = TRUE
              /\ (DOMAIN cf = {"operating_activities", "investing_activities",
                               "financing_activities"})
                 => /\ Len(new_passed) = 1
                    /\ new_warnings = <<>>
                    /\ new_errors = <<>>]_vars

\* Positive capital expenditure with negative depreciation: one warning, one
\* FAIL/MEDIUM error, no PASS, false.
C16_Witness ==
    /\ calls = <<"validate_investing_cash_flow_components">>
    /\ {"capital_expenditure", "depreciation"} \subseteq DOMAIN cf
    /\ cf.capital_expenditure > 0
    /\ cf.depreciation < 0
    /\ last.ret = FALSE
    /\ Len(warnings) = 1
    /\ Len(errors) = 1
    /\ errors[1].severity = "MEDIUM"
    /\ passed_checks = <<>>

\* C17: whenever short_term_debt is greater than total liabilities
\* (current_liabilities + non_current_liabilities), validate_balance_sheet_consistency
\* appends one FAIL/HIGH finding to errors and returns false, whatever the value of
\* short_term_debt, 0 and negative values included.
C17_ShortTermDebtAboveLiabilitiesFails ==
    [][(/\ Called("validate_balance_sheet_consistency")
        /\ BSComplete
        /\ "short_term_debt" \in DOMAIN bs.liabilities
        /\ bs.liabilities.short_term_debt >
               bs.liabilities.current_liabilities + bs.liabilities.non_current_liabilities)
       => LET new_errors == NewOf(errors', errors)
          IN  /\ ~last'.raised
              /\ last'.ret = FALSE
              /\ Len(new_errors) = 1
              /\ new_errors[1].status = "FAIL"
              /\ new_errors[1].severity = "HIGH"
              /\ new_errors[1].short_term_debt = bs.liabilities.short_term_debt]_vars

\* Exactly one new finding for a sub-check of the flow check: a PASS under pass_name in
\* passed_checks when the identity holds, an entry under fail_name in errors when not.
OneFlowFinding(new_passed, new_errors, pass_name, fail_name, holds) ==
    IF holds
    THEN /\ Cardinality(Named(new_passed, pass_name)) = 1
         /\ \A n \in Named(new_passed, pass_name) : new_passed[n].status = "PASS"
         /\ Named(new_errors, fail_name) = {}
    ELSE /\ Cardinality(Named(new_errors, fail_name)) = 1
         /\ Named(new_passed, pass_name) = {}

\* C18: validate_income_statement_flow evaluates its three sub-checks on every call,
\* none cut short by an earlier failure; each appends exactly one finding, to
\* passed_checks or to errors, and the call returns true exactly when all three
\* identities hold.  Each identity is taken on the reported upstream figure:
\* operating_income against reported gross_profit - operating_expenses, net_income
\* against reported operating_income - interest - taxes.  (Absent fields count as 0.)
C18_FlowChecksIndependent ==
    [][Called("validate_income_statement_flow")
       => LET new_passed == NewOf(passed_checks', passed_checks)
              new_errors == NewOf(errors', errors)
              gross_ok == Get(is_, "gross_profit", 0) =
                              Get(is_, "revenue", 0) - Get(is_, "cost_of_goods_sold", 0)
              operating_ok == Get(is_, "operating_income", 0) =
                                  Get(is_, "gross_profit", 0)
                                  - Get(is_, "operating_expenses", 0)
              net_ok == Get(is_, "net_income", 0) =
                            Get(is_, "operating_income", 0)
                            - Get(is_, "interest_expense", 0)
                            - Get(is_, "income_tax_expense", 0)
          IN  /\ ~last'.raised
              /\ last'.ret = (gross_ok /\ operating_ok /\ net_ok)
              /\ warnings' = warnings
              /\ SubSeq(passed_checks', 1, Len(passed_checks)) = passed_checks
              /\ SubSeq(errors', 1, Len(errors)) = errors
              /\ Len(new_passed) + Len(new_errors) = 3
              /\ OneFlowFinding(new_passed, new_errors,
                     "Gross Profit Calculation (Revenue - COGS)",
                     "Gross Profit Calculation", gross_ok)
              /\ OneFlowFinding(new_passed, new_errors,
                     "Operating Income Calculation (GP - OpEx)",
                     "Operating Income Calculation", operating_ok)
              /\ OneFlowFinding(new_passed, new_errors,
                     "Net Income Calculation (OI - Interest - Taxes)",
                     "Net Income Calculation", net_ok)]_vars

\* A wrong gross_profit carried consistently downstream: one error, for the gross
\* profit, two PASS findings, false.
C18_Witness ==
    /\ calls = <<"validate_income_statement_flow">>
    /\ ISFields \subseteq DOMAIN is_
    /\ is_.gross_profit # is_.revenue - is_.cost_of_goods_sold
    /\ is_.operating_income = is_.gross_profit - is_.operating_expenses
    /\ is_.net_income = is_.operating_income - is_.interest_expense - is_.income_tax_expense
    /\ last.ret = FALSE
    /\ Len(errors) = 1
    /\ errors[1].check = "Gross Profit Calculation"
    /\ Len(passed_checks) = 2
    /\ passed_checks[1].check = "Operating Income Calculation (GP - OpEx)"
    /\ passed_checks[2].check = "Net Income Calculation (OI - Interest - Taxes)"

\* C19: validate_income_statement_logic applies its rules in the order revenue, COGS,
\* operating expenses, interest, taxes and stops at the first failing bound.
\* revenue < 0: one FAIL/CRITICAL error and nothing else.  Otherwise COGS > revenue
\* appends a WARNING; then operating expenses < 0, else interest < 0, appends one
\* FAIL/HIGH error and the call returns false with no PASS and no tax warning;
\* otherwise taxes < 0 appends a WARNING, one PASS is appended and the call returns
\* true.  A call appends at most one error and at most two warnings.  (Absent fields
\* count as 0.)
C19_LogicStopsAtFirstFailure ==
    [][Called("validate_income_statement_logic")
       => LET new_passed == NewOf(passed_checks', passed_checks)
              new_warnings == NewOf(warnings', warnings)
              new_errors == NewOf(errors', errors)
              revenue == Get(is_, "revenue", 0)
              cogs_above == Get(is_, "cost_of_goods_sold", 0) > revenue
              opex_negative == Get(is_, "operating_expenses", 0) < 0
              interest_negative == Get(is_, "interest_expense", 0) < 0
              taxes_negative == Get(is_, "income_tax_expense", 0) < 0
              cogs_warning == IF cogs_above THEN <<"COGS > Revenue">> ELSE <<>>
              tax_warning == IF taxes_negative THEN <<"Tax Provision">> ELSE <<>>
              items == [n \in 1..Len(new_warnings) |-> new_warnings[n].item]
          IN  /\ ~last'.raised
              /\ SubSeq(passed_checks', 1, Len(passed_checks)) = passed_checks
              /\ SubSeq(warnings', 1, Len(warnings)) = warnings
              /\ SubSeq(errors', 1, Len(errors)) = errors
              /\ Len(new_errors) <= 1
              /\ Len(new_warnings) <= 2
              /\ \A n \in 1..Len(new_warnings) : new_warnings[n].status = "WARNING"
              /\ IF revenue < 0
                 THEN /\ Len(new_errors) = 1
                      /\ new_errors[1].status = "FAIL"
                      /\ new_errors[1].severity = "CRITICAL"
                      /\ new_errors[1].item = "Revenue"
                      /\ new_warnings = <<>>
                      /\ new_passed = <<>>
                      /\ last'.ret = FALSE
                 ELSE IF opex_negative \/ interest_negative
                 THEN /\ Len(new_errors) = 1
                      /\ new_errors[1].status = "FAIL"
                      /\ new_errors[1].severity = "HIGH"
                      /\ new_errors[1].item = IF opex_negative THEN "Operating Expenses"
                                              ELSE "Interest Expense"
                      /\ items = cogs_warning
                      /\ new_passed = <<>>
                      /\ last'.ret = FALSE
                 ELSE /\ new_errors = <<>>
                      /\ items = cogs_warning \o tax_warning
                      /\ new_passed = << [check |-> "Income Statement Logic",
                                          status |-> "PASS"] >>
                      /\ last'.ret = TRUE]_vars

\* Negative operating expenses, interest and taxes with COGS above revenue: the
\* COGS warning, one FAIL/HIGH error for the operating expenses, nothing more.
C19_Witness ==
    /\ calls = <<"validate_income_statement_logic">>
    /\ ISFields \subseteq DOMAIN is_
    /\ is_.revenue >= 0
    /\ is_.cost_of_goods_sold > is_.revenue
    /\ is_.operating_expenses < 0
    /\ (is_.interest_expense < 0 \/ is_.income_tax_expense < 0)
    /\ last.ret = FALSE
    /\ Len(errors) = 1
    /\ errors[1].item = "Operating Expenses"
    /\ errors[1].severity = "HIGH"
    /\ Len(warnings) = 1
    /\ warnings[1].item = "COGS > Revenue"
    /\ passed_checks = <<>>

\* C20: validate_net_income_to_cash_flow returns true, appends nothing to errors and
\* appends exactly one finding on every call: for net_income > 0 a PASS when
\* 0.5 * net_income <= operating_activities <= 2.0 * net_income (bounds included) and
\* a WARNING otherwise; for net_income <= 0 a PASS whatever operating_activities is.
\* Absent fields count as 0.  The bounds are compared in halves of a currency unit.
C20_NetIncomeToCashFlow ==
    [][Called("validate_net_income_to_cash_flow")
       => LET new_passed == NewOf(passed_checks', passed_checks)
              new_warnings == NewOf(warnings', warnings)
              net_income == IF "net_income" \in DOMAIN is_ THEN is_.net_income ELSE 0
              ocf == IF "operating_activities" \in DOMAIN cf
                     THEN cf.operating_activities ELSE 0
              expect_pass ==
                  net_income > 0 => (net_income <= ocf + ocf /\ ocf <= net_income + net_income)
          IN  /\ ~last'.raised
              /\ last'.ret = TRUE
              /\ errors' = errors
              /\ SubSeq(passed_checks', 1, Len(passed_checks)) = passed_checks
              /\ SubSeq(warnings', 1, Len(warnings)) = warnings
              /\ Len(new_passed) + Len(new_warnings) = 1
              /\ IF expect_pass
                 THEN /\ Len(new_passed) = 1
                      /\ new_passed[1].status = "PASS"
                      /\ new_passed[1].check = "Net Income to Operating CF"
                 ELSE /\ Len(new_warnings) = 1
                      /\ new_warnings[1].status = "WARNING"
                      /\ new_warnings[1].check = "Net Income to Operating CF"]_vars

\* Operating cash flow exactly twice a positive net income: PASS.
C20_Witness ==
    /\ calls = <<"validate_net_income_to_cash_flow">>
    /\ "net_income" \in DOMAIN is_
    /\ "operating_activities" \in DOMAIN cf
    /\ is_.net_income = 3
    /\ cf.operating_activities = 6
    /\ last.ret = TRUE
    /\ Len(passed_checks) = 1
    /\ passed_checks[1].within_range = TRUE
    /\ warnings = <<>>
    /\ errors = <<>>

\* The four totals validate_liability_equity_structure subscripts are present.
StructureTotalsPresent ==
    /\ HasPath(bs, "liabilities", "current_liabilities")
    /\ HasPath(bs, "liabilities", "non_current_liabilities")
    /\ HasPath(bs, "equity", "common_stock")
    /\ HasPath(bs, "equity", "retained_earnings")

\* C21: validate_liability_equity_structure.  With total liabilities < 0 it appends
\* exactly one FAIL/CRITICAL error, returns false and appends no warning, also when
\* total equity is negative.  Otherwise it appends one WARNING exactly when total
\* equity < 0, and then either one FAIL/CRITICAL error with false when common_stock
\* < 0, or one PASS with true: negative equity with non-negative common stock gives a
\* WARNING and a PASS of the same check.
C21_LiabilityEquityStructure ==
    [][(Called("validate_liability_equity_structure") /\ StructureTotalsPresent)
       => LET new_passed == NewOf(passed_checks', passed_checks)
              new_warnings == NewOf(warnings', warnings)
              new_errors == NewOf(errors', errors)
              total_liabilities == bs.liabilities.current_liabilities
                                   + bs.liabilities.non_current_liabilities
              total_equity == bs.equity.common_stock + bs.equity.retained_earnings
          IN  /\ ~last'.raised
              /\ SubSeq(passed_checks', 1, Len(passed_checks)) = passed_checks
              /\ SubSeq(warnings', 1, Len(warnings)) = warnings
              /\ SubSeq(errors', 1, Len(errors)) = errors
              /\ IF total_liabilities < 0
                 THEN /\ Len(new_errors) = 1
                      /\ new_errors[1].status = "FAIL"
                      /\ new_errors[1].severity = "CRITICAL"
                      /\ new_errors[1].item = "Total Liabilities"
                      /\ new_warnings = <<>>
                      /\ new_passed = <<>>
                      /\ last'.ret = FALSE
                 ELSE /\ Len(new_warnings) = IF total_equity < 0 THEN 1 ELSE 0
                      /\ (total_equity < 0)
                         => /\ new_warnings[1].status = "WARNING"
                            /\ new_warnings[1].item = "Total Equity"
                            /\ new_warnings[1].check = "Liability and Equity Structure"
                      /\ IF bs.equity.common_stock < 0
                         THEN /\ Len(new_errors) = 1
                              /\ new_errors[1].status = "FAIL"
                              /\ new_errors[1].severity = "CRITICAL"
                              /\ new_errors[1].item = "Common Stock"
                              /\ new_passed = <<>>
                              /\ last'.ret = FALSE
                         ELSE /\ new_errors = <<>>
                              /\ new_passed = << [check |-> "Liability and Equity Structure",
                                                  status |-> "PASS"] >>
                              /\ last'.ret = TRUE]_vars

\* Negative equity with non-negative common stock and liabilities: a WARNING and a
\* PASS of the same check, true.
C21_Witness ==
    /\ calls = <<"validate_liability_equity_structure">>
    /\ StructureTotalsPresent
    /\ bs.liabilities.current_liabilities + bs.liabilities.non_current_liabilities >= 0
    /\ bs.equity.common_stock >= 0
    /\ bs.equity.common_stock + bs.equity.retained_earnings < 0
    /\ last.ret = TRUE
    /\ Len(warnings) = 1
    /\ Len(passed_checks) = 1
    /\ warnings[1].check = passed_checks[1].check
    /\ errors = <<>>

\* C22: validate_current_assets_composition examines cash, accounts_receivable and
\* inventory in that order, an absent one as 0, and stops at the first negative one:
\* it appends exactly one FAIL/HIGH error naming that item and carrying its value, no
\* PASS, and returns false, also when later items are negative too; when none is
\* negative it appends exactly one PASS and returns true.  It appends no warning.
C22_FirstNegativeAssetStops ==
    [][(Called("validate_current_assets_composition") /\ "assets" \in DOMAIN bs)
       => LET new_passed == NewOf(passed_checks', passed_checks)
              new_errors == NewOf(errors', errors)
              cash == Get(bs.assets, "cash", 0)
              receivable == Get(bs.assets, "accounts_receivable", 0)
              inventory == Get(bs.assets, "inventory", 0)
          IN  /\ ~last'.raised
              /\ warnings' = warnings
              /\ SubSeq(passed_checks', 1, Len(passed_checks)) = passed_checks
              /\ SubSeq(errors', 1, Len(errors)) = errors
              /\ IF cash < 0 \/ receivable < 0 \/ inventory < 0
                 THEN /\ Len(new_errors) = 1
                      /\ new_errors[1].status = "FAIL"
                      /\ new_errors[1].severity = "HIGH"
                      /\ new_errors[1].item =
                             IF cash < 0 THEN "Cash"
                             ELSE IF receivable < 0 THEN "Accounts Receivable"
                             ELSE "Inventory"
                      /\ new_errors[1].value =
                             IF cash < 0 THEN cash
                             ELSE IF receivable < 0 THEN receivable
                             ELSE inventory
                      /\ new_passed = <<>>
                      /\ last'.ret = FALSE
                 ELSE /\ new_errors = <<>>
                      /\ new_passed = << [check |-> "Current Assets Composition",
                                          status |-> "PASS"] >>
                      /\ last'.ret = TRUE]_vars

\* Cash absent, receivables and inventory both negative: one error, for the
\* receivables, no PASS, false.
C22_Witness ==
    /\ calls = <<"validate_current_assets_composition">>
    /\ "assets" \in DOMAIN bs
    /\ "cash" \notin DOMAIN bs.assets
    /\ {"accounts_receivable", "inventory"} \subseteq DOMAIN bs.assets
    /\ bs.assets.accounts_receivable < 0
    /\ bs.assets.inventory < 0
    /\ last.ret = FALSE
    /\ Len(errors) = 1
    /\ errors[1].item = "Accounts Receivable"
    /\ errors[1].severity = "HIGH"
    /\ passed_checks = <<>>

\* C23: in every report run_all_audits returns, summary.passed, summary.failed and
\* summary.warnings are the lengths of the report's passed_checks, errors and warnings
\* lists, and summary.total_checks is passed + failed: warning findings are not counted
\* in total_checks.
C23_SummaryCountsLists ==
    (last.op = "run_all_audits" /\ ~last.raised)
    => LET report == last.ret
       IN  /\ report.summary.passed = Len(report.passed_checks)
           /\ report.summary.failed = Len(report.errors)
           /\ report.summary.warnings = Len(report.warnings)
           /\ report.summary.total_checks = report.summary.passed + report.summary.failed
           /\ report.summary.total_checks =
                  Len(report.passed_checks \o report.errors \o report.warnings)
                  - Len(report.warnings)

\* A report with passes, errors and warnings: total_checks leaves the warnings out.
C23_Witness ==
    /\ last.op = "run_all_audits"
    /\ ~last.raised
    /\ last.ret.summary.warnings > 0
    /\ last.ret.summary.failed > 0
    /\ last.ret.summary.passed > 0
    /\ last.ret.summary.total_checks = Len(last.ret.passed_checks) + Len(last.ret.errors)
    /\ last.ret.summary.total_checks <
           Len(last.ret.passed_checks) + Len(last.ret.errors) + Len(last.ret.warnings)

====
